---- MODULE Spec2Model ----
(***************************************************************************)
(* TIM chatbot backend.  The repository holds two runnable server modules: *)
(*   - the syllabus-aware server (src/unnamed/part_000): an in-memory TTL  *)
(*     cache of the syllabi index and of syllabus texts, course detection, *)
(*     GET /debug/syllabi-index and POST /api/chat;                        *)
(*   - the basic server (src/server.js): POST /api/chat that prepends the  *)
(*     runtime and persona messages and calls the model.                   *)
(* Three specifications are defined over the same variables:               *)
(*   Spec        the two servers answering HTTP requests;                  *)
(*   SpecCache   getSyllabiIndex / getSyllabusText driven by concurrent    *)
(*               callers (the functions' own contract);                    *)
(*   SpecDetect  findCourseFromUserText applied to bounded inputs.         *)
(* Text is a sequence of one-character strings.                            *)
(***************************************************************************)
EXTENDS Integers, Sequences, FiniteSets, TLC

\* ---------------------------------------------------------------- bounds
NReq == 2
MaxClock == 2
MaxTextLen == 2

\* TTL in clock ticks (the source default is 15 minutes in milliseconds)
SYLLABI_CACHE_TTL_MS == 2

\* ------------------------------------------------------------------ text
None == <<>>
Some(x) == <<x>>

UpperLetters == <<"A", "B", "E", "X", "M", "T", "I">>
LowerLetters == <<"a", "b", "e", "x", "m", "t", "i">>

\* String.prototype.toLowerCase on one character
LowerChar(c) ==
  IF \E i \in 1..Len(UpperLetters) : UpperLetters[i] = c
  THEN LowerLetters[CHOOSE i \in 1..Len(UpperLetters) : UpperLetters[i] = c]
  ELSE c

toLowerCase(s) == [i \in 1..Len(s) |-> LowerChar(s[i])]

\* String.prototype.includes
includes(t, a) ==
  \E i \in 0..(Len(t) - Len(a)) : SubSeq(t, i + 1, i + Len(a)) = a

\* --------------------------------------------------- JSON index documents
\* A course member of the index document: "name": { aliases, syllabus_url }.
\* aliases = <<>> stands for both a missing and an empty aliases array
\* (the code reads meta.aliases || []); syllabus_url = "" for a missing one.
Course(n, al, u) == [name |-> n, aliases |-> al, syllabus_url |-> u]

IsDigit(c) == c \in {"0", "1", "2", "3", "4", "5", "6", "7", "8", "9"}

DigitVal(c) ==
  CASE c = "0" -> 0 [] c = "1" -> 1 [] c = "2" -> 2 [] c = "3" -> 3
    [] c = "4" -> 4 [] c = "5" -> 5 [] c = "6" -> 6 [] c = "7" -> 7
    [] c = "8" -> 8 [] OTHER -> 9

\* A property key that is a canonical array index ("0", "7", "12", not "07")
IsArrayIndex(n) ==
  /\ Len(n) > 0
  /\ \A i \in 1..Len(n) : IsDigit(n[i])
  /\ (Len(n) > 1 => n[1] # "0")

RECURSIVE NumVal(_)
NumVal(n) ==
  IF Len(n) = 0 THEN 0
  ELSE 10 * NumVal(SubSeq(n, 1, Len(n) - 1)) + DigitVal(n[Len(n)])

RECURSIVE InsertByNum(_, _)
InsertByNum(sorted, c) ==
  IF sorted = <<>> THEN <<c>>
  ELSE IF NumVal(c.name) < NumVal(Head(sorted).name)
       THEN <<c>> \o sorted
       ELSE <<Head(sorted)>> \o InsertByNum(Tail(sorted), c)

RECURSIVE SortByNum(_)
SortByNum(cs) ==
  IF cs = <<>> THEN <<>> ELSE InsertByNum(SortByNum(Tail(cs)), Head(cs))

IntKey(c) == IsArrayIndex(c.name)
StrKey(c) == ~IsArrayIndex(c.name)

\* (mutant) an object that enumerates its keys in document order
ObjectEntries_DocOrder(members) == members

\* Own-property enumeration order of the object JSON.parse builds from the
\* members of a document (member names are unique): integer-like keys in
\* ascending numeric order, then the other keys in document order.
ObjectEntries(members) ==
  SortByNum(SelectSeq(members, IntKey)) \o SelectSeq(members, StrKey)

\* Values held by the cache and returned by the reads
JsonNull == [type |-> "null", entries |-> <<>>, text |-> <<>>]
Obj(es) == [type |-> "object", entries |-> es, text |-> <<>>]
Txt(t) == [type |-> "text", entries |-> <<>>, text |-> t]

\* JavaScript truthiness of a parsed index value
Truthy(v) == v.type # "null"

\* Raw index documents the upstream can serve
RawJson(members) == [type |-> "json", members |-> members]
RawNull == [type |-> "jsonnull", members |-> <<>>]
RawMalformed == [type |-> "malformed", members |-> <<>>]

JSONparseThrows(raw) == raw.type = "malformed"

JSONparse(raw) ==
  IF raw.type = "json" THEN Obj(ObjectEntries(raw.members)) ELSE JsonNull

\* Object.keys(indexObj)
ObjectKeys(indexObj) == [i \in 1..Len(indexObj.entries) |-> indexObj.entries[i].name]

\* ------------------------------------------------------- course detection
NonEmpty(s) == s # <<>>

\* (mutant) empty aliases are kept
AliasesOf_KeepEmpty(c) ==
  LET all == <<c.name>> \o c.aliases
  IN [i \in 1..Len(all) |-> toLowerCase(all[i])]

\* (mutant) the aliases compared as written, not lowercased
AliasesOf_AsWritten(c) == SelectSeq(<<c.name>> \o c.aliases, NonEmpty)

\* [courseName, ...(meta.aliases || [])].map(lowercase).filter(Boolean)
AliasesOf(c) ==
  LET all == <<c.name>> \o c.aliases
  IN SelectSeq([i \in 1..Len(all) |-> toLowerCase(all[i])], NonEmpty)

SomeAliasIncluded(c, t) ==
  \E j \in 1..Len(AliasesOf(c)) : includes(t, AliasesOf(c)[j])

RECURSIVE FindFrom(_, _, _)
FindFrom(entries, t, i) ==
  IF i > Len(entries) THEN None
  ELSE IF SomeAliasIncluded(entries[i], t) THEN Some(entries[i].name)
       ELSE FindFrom(entries, t, i + 1)

findCourseFromUserText(indexObj, userText) ==
  FindFrom(indexObj.entries, toLowerCase(userText), 1)

\* ------------------------------------------------------------ the keyword gate
\* Alternatives of the needsCourse regular expression (flag i)
Keywords == {
  <<"p", "r", "ü", "f", "u", "n", "g">>, <<"e", "x", "a", "m">>,
  <<"d", "e", "a", "d", "l", "i", "n", "e">>,
  <<"a", "n", "m", "e", "l", "d", "u", "n", "g">>,
  <<"r", "e", "g", "i", "s", "t", "r", "a", "t", "i", "o", "n">>,
  <<"n", "o", "t", "e">>, <<"g", "r", "a", "d", "i", "n", "g">>,
  <<"b", "e", "w", "e", "r", "t", "u", "n", "g">>,
  <<"a", "t", "t", "e", "n", "d", "a", "n", "c", "e">>,
  <<"a", "n", "w", "e", "s", "e", "n", "h", "e", "i", "t">>,
  <<"r", "a", "u", "m">>, <<"r", "o", "o", "m">>,
  <<"t", "e", "r", "m", "i", "n">>, <<"d", "a", "t", "e">>,
  <<"u", "h", "r", "z", "e", "i", "t">>, <<"t", "i", "m", "e">> }

needsCourse(lastUserText) ==
  \E kw \in Keywords : includes(toLowerCase(lastUserText), kw)

\* ------------------------------------------------------------------ messages
\* content = None for a message without content
Msg(role, content) == [role |-> role, content |-> content]

IsUser(m) == m.role = "user"

\* [...messages].reverse().find(m => m?.role === "user"), then
\* (lastUser?.content || "").toString()
lastUserText(items) ==
  LET users == SelectSeq(items, IsUser)
  IN IF users = <<>> THEN <<>>
     ELSE IF users[Len(users)].content = None THEN <<>>
          ELSE users[Len(users)].content[1]

runtimeContextMessage(items) ==
  Msg("system", Some(<<"#", "r", ":">> \o lastUserText(items)))

systemMessage == Msg("system", Some(<<"#", "p">>))

\* ------------------------------------------------------------------ inputs
T_exam == <<"E", "x", "a", "m">>
T_b1 == <<"b", "1">>
T_hi == <<"h", "i">>

\* Request bodies of POST /api/chat
ChatBodies == {
  [isArray |-> FALSE, items |-> <<>>],
  [isArray |-> TRUE, items |-> <<>>],
  [isArray |-> TRUE, items |-> <<Msg("user", Some(T_exam))>>],
  [isArray |-> TRUE, items |-> <<Msg("user", Some(T_b1)), Msg("assistant", Some(T_hi))>>],
  [isArray |-> TRUE, items |-> <<Msg("tool", Some(T_hi)), Msg("user", None)>>],
  [isArray |-> TRUE, items |-> <<Msg("", Some(T_hi))>>] }

NoBody == [isArray |-> FALSE, items |-> <<>>]

Urls == {"u1"}
IndexKey == "INDEX"
Keys == {IndexKey} \cup Urls

DocA == << Course(<<"B", "1">>, << <<"b">> >>, "u1"), Course(<<"B", "2">>, <<>>, "") >>

\* What the upstream can answer to GET <index url>
IndexResponses ==
  { [ok |-> TRUE, raw |-> d] : d \in {RawJson(DocA), RawNull, RawMalformed} }
  \cup { [ok |-> FALSE, raw |-> RawMalformed] }

\* What the upstream can answer to GET <syllabus url>
TextResponses ==
  { [ok |-> TRUE, text |-> t] : t \in {<<"s">>, <<>>} }
  \cup { [ok |-> FALSE, text |-> <<>>] }

\* What the model API can answer
LLMOutcomes == {"ok", "notOk", "rejected"}

ReqIds == 1..NReq

\* ------------------------------------------------------------------- state
VARIABLES
  env,          \* process.env: SYLLABI_INDEX_URL set?, PROVIDER
  clock,        \* Date.now()
  cacheIndex,   \* syllabusCache.index
  cacheByUrl,   \* syllabusCache.byUrl (None = no entry)
  req,          \* the requests / calls and where each one stands
  stored,       \* history: a fetch has stored a value under the key
  probe         \* input and result of a findCourseFromUserText application

vars == <<env, clock, cacheIndex, cacheByUrl, req, stored, probe>>

NoResponse == [status |-> 0, type |-> "none", error |-> "", courses |-> <<>>]

IdleReq ==
  [kind |-> "idle", pc |-> "new", key |-> "", now |-> 0, fetches |-> 0,
   seen |-> "", outcome |-> "", value |-> JsonNull, res |-> NoResponse,
   body |-> NoBody, llmCalls |-> 0, outbound |-> <<>>, sent |-> 0]

NoProbe == [members |-> <<>>, text |-> <<>>, called |-> FALSE, result |-> None]

InitCommon ==
  /\ clock = 0
  /\ cacheIndex = [value |-> JsonNull, fetchedAt |-> 0]
  /\ cacheByUrl = [u \in Urls |-> None]
  /\ req = [r \in ReqIds |-> IdleReq]
  /\ stored = [k \in Keys |-> FALSE]

Init ==
  /\ env \in [indexUrlSet : BOOLEAN, provider : {"openai", "other"}]
  /\ InitCommon
  /\ probe = NoProbe

\* Date.now() advances
Tick ==
  /\ clock < MaxClock
  /\ clock' = clock + 1
  /\ UNCHANGED <<env, cacheIndex, cacheByUrl, req, stored, probe>>

\* ------------------------------------------------------------ the TTL cache
\* (mutant) an entry of age TTL - 1 already counts as expired
IndexHit_Early(now) ==
  /\ Truthy(cacheIndex.value)
  /\ (now - cacheIndex.fetchedAt) < SYLLABI_CACHE_TTL_MS - 1

\* syllabusCache.index.value && (now - fetchedAt) < SYLLABI_CACHE_TTL_MS
IndexHit(now) ==
  /\ Truthy(cacheIndex.value)
  /\ (now - cacheIndex.fetchedAt) < SYLLABI_CACHE_TTL_MS

\* (mutant) the age of a text is taken from the index entry
TextHit_IndexAge(url, now) ==
  /\ cacheByUrl[url] # None
  /\ (now - cacheIndex.fetchedAt) < SYLLABI_CACHE_TTL_MS

\* (mutant) an entry of age exactly TTL still counts as fresh
TextHit_Inclusive(url, now) ==
  /\ cacheByUrl[url] # None
  /\ (now - cacheByUrl[url][1].fetchedAt) <= SYLLABI_CACHE_TTL_MS

\* cached && (now - cached.fetchedAt) < SYLLABI_CACHE_TTL_MS
TextHit(url, now) ==
  /\ cacheByUrl[url] # None
  /\ (now - cacheByUrl[url][1].fetchedAt) < SYLLABI_CACHE_TTL_MS

\* fetchText: throws unless the response status is a success
fetchTextThrows(resp) == ~resp.ok

\* (mutant) the entry is stamped with the time of the write
IndexAfterFetch_StampAtWrite(resp, now) ==
  IF fetchTextThrows(resp) \/ JSONparseThrows(resp.raw) THEN cacheIndex
  ELSE [value |-> JSONparse(resp.raw), fetchedAt |-> clock]

\* (mutant) a failed fetch clears the entry
IndexAfterFetch_Poison(resp, now) ==
  IF fetchTextThrows(resp) \/ JSONparseThrows(resp.raw)
  THEN [value |-> JsonNull, fetchedAt |-> now]
  ELSE [value |-> JSONparse(resp.raw), fetchedAt |-> now]

\* syllabusCache.index after the continuation of getSyllabiIndex that
\* follows the fetch: raw = await fetchText(); parsed = JSON.parse(raw);
\* syllabusCache.index = { value: parsed, fetchedAt: now }
IndexAfterFetch(resp, now) ==
  IF fetchTextThrows(resp) \/ JSONparseThrows(resp.raw) THEN cacheIndex
  ELSE [value |-> JSONparse(resp.raw), fetchedAt |-> now]

\* (mutant) a failed fetch evicts the entry
ByUrlAfterFetch_EvictOnFail(url, resp, now) ==
  IF fetchTextThrows(resp) THEN [cacheByUrl EXCEPT ![url] = None]
  ELSE [cacheByUrl EXCEPT ![url] = Some([value |-> Txt(resp.text), fetchedAt |-> now])]

\* (mutant) a write never replaces an entry with a later fetchedAt
ByUrlAfterFetch_KeepNewer(url, resp, now) ==
  IF fetchTextThrows(resp) THEN cacheByUrl
  ELSE IF cacheByUrl[url] # None /\ cacheByUrl[url][1].fetchedAt > now THEN cacheByUrl
  ELSE [cacheByUrl EXCEPT ![url] = Some([value |-> Txt(resp.text), fetchedAt |-> now])]

\* syllabusCache.byUrl after the continuation of getSyllabusText that
\* follows the fetch: text = await fetchText(url); byUrl.set(url, {...})
ByUrlAfterFetch(url, resp, now) ==
  IF fetchTextThrows(resp) THEN cacheByUrl
  ELSE [cacheByUrl EXCEPT ![url] = Some([value |-> Txt(resp.text), fetchedAt |-> now])]

\* how the read of request r ends, as seen by its caller
IndexFetchOutcome(resp) ==
  IF fetchTextThrows(resp) THEN "fetchError"
  ELSE IF JSONparseThrows(resp.raw) THEN "parseError"
  ELSE "fetched"

TextFetchOutcome(resp) == IF fetchTextThrows(resp) THEN "fetchError" ELSE "fetched"

ReadFailed(outcome) == outcome \in {"configError", "fetchError", "parseError"}

\* the cached entry of a key (the initial one where nothing is stored)
Entry(key) ==
  IF key = IndexKey THEN cacheIndex
  ELSE IF cacheByUrl[key] = None THEN [value |-> JsonNull, fetchedAt |-> 0]
       ELSE cacheByUrl[key][1]

\* what a read at time now finds under the key (history, kept while the
\* fetch of the read is in flight)
Seen(key, now) ==
  IF ~stored[key] THEN "absent"
  ELSE IF (now - Entry(key).fetchedAt) < SYLLABI_CACHE_TTL_MS THEN "fresh"
  ELSE IF (now - Entry(key).fetchedAt) = SYLLABI_CACHE_TTL_MS THEN "atTTL"
  ELSE "older"

\* what the write of a read that started at time now finds under the key
\* (history): "newer" when the entry it replaces was stamped later than now
WriteFound(key, outcome, now) ==
  IF outcome = "fetched" /\ stored[key] /\ Entry(key).fetchedAt > now
  THEN "newer" ELSE ""

\* ------------------------------------------- GET /debug/syllabi-index
\* (mutant) the catch answers without setting a status
DebugResponse_Always200(outcome, value) ==
  IF ReadFailed(outcome)
  THEN [status |-> 200, type |-> "okFalse", error |-> outcome, courses |-> <<>>]
  ELSE IF ~Truthy(value)
  THEN [status |-> 200, type |-> "okFalse", error |-> "typeError", courses |-> <<>>]
  ELSE [status |-> 200, type |-> "okTrue", error |-> "", courses |-> ObjectKeys(value)]

\* The response of the handler once getSyllabiIndex has settled:
\* res.json({ok: true, courses: Object.keys(idx)}), or from the catch
\* res.status(500).json({ok: false, error}); Object.keys(null) throws.
DebugResponse(outcome, value) ==
  IF ReadFailed(outcome)
  THEN [status |-> 500, type |-> "okFalse", error |-> outcome, courses |-> <<>>]
  ELSE IF ~Truthy(value)
  THEN [status |-> 500, type |-> "okFalse", error |-> "typeError", courses |-> <<>>]
  ELSE [status |-> 200, type |-> "okTrue", error |-> "", courses |-> ObjectKeys(value)]

\* What the caller of a settled cache read does with it
Settle(r, kind, outcome, value) ==
  [req[r] EXCEPT !.kind = kind, !.pc = "done", !.outcome = outcome,
                 !.value = value, !.now = 0, !.seen = "",
                 !.res = IF kind = "debug" THEN DebugResponse(outcome, value)
                         ELSE NoResponse,
                 !.sent = IF kind = "debug" THEN @ + 1 ELSE @]

\* (mutant) a read waits while another fetch of the index is in flight
StartIndexRead_SingleFlight(r, kind) ==
  /\ req[r].pc = "new"
  /\ ~\E q \in ReqIds : q # r /\ req[q].pc = "fetch" /\ req[q].key = IndexKey
  /\ IF ~env.indexUrlSet
     THEN req' = [req EXCEPT ![r] = Settle(r, kind, "configError", JsonNull)]
     ELSE IF IndexHit(clock)
     THEN req' = [req EXCEPT ![r] = [Settle(r, kind, "hit", cacheIndex.value)
                                       EXCEPT !.key = IndexKey]]
     ELSE req' = [req EXCEPT ![r] = [req[r] EXCEPT !.kind = kind, !.pc = "fetch",
                                       !.key = IndexKey, !.now = clock,
                                       !.fetches = 1,
                                       !.seen = Seen(IndexKey, clock)]]
  /\ UNCHANGED <<env, clock, cacheIndex, cacheByUrl, stored, probe>>

\* getSyllabiIndex up to its first await, called by a caller of the given kind
StartIndexRead(r, kind) ==
  /\ req[r].pc = "new"
  /\ IF ~env.indexUrlSet
     THEN req' = [req EXCEPT ![r] = Settle(r, kind, "configError", JsonNull)]
     ELSE IF IndexHit(clock)
     THEN req' = [req EXCEPT ![r] = [Settle(r, kind, "hit", cacheIndex.value)
                                       EXCEPT !.key = IndexKey]]
     ELSE req' = [req EXCEPT ![r] = [req[r] EXCEPT !.kind = kind, !.pc = "fetch",
                                       !.key = IndexKey, !.now = clock,
                                       !.fetches = 1,
                                       !.seen = Seen(IndexKey, clock)]]
  /\ UNCHANGED <<env, clock, cacheIndex, cacheByUrl, stored, probe>>

GetDebugIndex(r) == StartIndexRead(r, "debug")

CallGetSyllabiIndex(r) == StartIndexRead(r, "getIndex")

\* The index fetch of request r completes and getSyllabiIndex settles
IndexFetchDone(r) ==
  /\ req[r].pc = "fetch"
  /\ req[r].key = IndexKey
  /\ \E resp \in IndexResponses :
       /\ cacheIndex' = IndexAfterFetch(resp, req[r].now)
       /\ req' = [req EXCEPT ![r] =
                    [Settle(r, req[r].kind, IndexFetchOutcome(resp),
                            IF IndexFetchOutcome(resp) = "fetched"
                            THEN JSONparse(resp.raw) ELSE JsonNull)
                       EXCEPT !.seen = WriteFound(IndexKey, IndexFetchOutcome(resp),
                                                  req[r].now)]]
       /\ stored' = IF IndexFetchOutcome(resp) = "fetched"
                    THEN [stored EXCEPT ![IndexKey] = TRUE] ELSE stored
  /\ UNCHANGED <<env, clock, cacheByUrl, probe>>

\* getSyllabusText(url) up to its first await
CallGetSyllabusText(r, url) ==
  /\ req[r].pc = "new"
  /\ IF TextHit(url, clock)
     THEN req' = [req EXCEPT ![r] = [Settle(r, "getText", "hit", cacheByUrl[url][1].value)
                                       EXCEPT !.key = url]]
     ELSE req' = [req EXCEPT ![r] = [req[r] EXCEPT !.kind = "getText", !.pc = "fetch",
                                       !.key = url, !.now = clock, !.fetches = 1,
                                       !.seen = Seen(url, clock)]]
  /\ UNCHANGED <<env, clock, cacheIndex, cacheByUrl, stored, probe>>

\* The syllabus fetch of request r completes and getSyllabusText settles
TextFetchDone(r) ==
  /\ req[r].pc = "fetch"
  /\ req[r].key \in Urls
  /\ \E resp \in TextResponses :
       /\ cacheByUrl' = ByUrlAfterFetch(req[r].key, resp, req[r].now)
       /\ req' = [req EXCEPT ![r] =
                    [Settle(r, req[r].kind, TextFetchOutcome(resp),
                            IF TextFetchOutcome(resp) = "fetched"
                            THEN Txt(resp.text) ELSE JsonNull)
                       EXCEPT !.seen = WriteFound(req[r].key, TextFetchOutcome(resp),
                                                  req[r].now)]]
       /\ stored' = IF TextFetchOutcome(resp) = "fetched"
                    THEN [stored EXCEPT ![req[r].key] = TRUE] ELSE stored
  /\ UNCHANGED <<env, clock, cacheIndex, probe>>

\* ------------------------------------------------------- POST /api/chat
\* a Message of the data model: a role among system, user, assistant (""
\* stands for a missing role) and a content
WellFormedMsg(m) ==
  /\ m.role \in {"system", "user", "assistant"}
  /\ m.content # None

WellFormed(items) == \A i \in 1..Len(items) : WellFormedMsg(items[i])

\* (mutant) the array check is missing
IsArray_Unchecked(body) == TRUE

\* (mutant) the array check also validates the entries
IsArray_Validating(body) == body.isArray /\ WellFormed(body.items)

\* Array.isArray(messages)
IsArray(body) == body.isArray

\* Top-level functions each server module declares (neither imports any)
Declared_part000 ==
  {"fetchText", "getSyllabiIndex", "getSyllabusText", "findCourseFromUserText", "callLLM"}
Declared_server == {"univieSemesterLabel", "callLLM"}

\* const semesterLabel = univieSemesterLabel(now): a ReferenceError in a
\* module that does not declare the function
ReferenceError(declared) == "univieSemesterLabel" \notin declared

BadRequest ==
  [status |-> 400, type |-> "error", error |-> "messages must be an array", courses |-> <<>>]
ServerError ==
  [status |-> 500, type |-> "error", error |-> "Server error", courses |-> <<>>]
Reply == [status |-> 200, type |-> "reply", error |-> "", courses |-> <<>>]

\* (mutant) the 400 is sent without returning from the handler
PostChat_NoReturn(r) ==
  /\ req[r].pc = "new"
  /\ \E body \in ChatBodies :
       req' = [req EXCEPT ![r] =
                 [req[r] EXCEPT !.kind = "chat", !.pc = "done", !.body = body,
                    !.res = ServerError,
                    !.sent = IF ~IsArray(body) THEN @ + 2 ELSE @ + 1]]
  /\ UNCHANGED <<env, clock, cacheIndex, cacheByUrl, stored, probe>>

\* The handler of the syllabus-aware server.  It runs without an await from
\* the array check to the call of univieSemesterLabel, whose ReferenceError
\* the handler's catch turns into the 500 response.
PostChat(r) ==
  /\ req[r].pc = "new"
  /\ \E body \in ChatBodies :
       req' = [req EXCEPT ![r] =
                 [req[r] EXCEPT !.kind = "chat", !.pc = "done", !.body = body,
                    !.res = CASE ~IsArray(body) -> BadRequest
                              [] ReferenceError(Declared_part000) -> ServerError,
                    !.sent = @ + 1]]
  /\ UNCHANGED <<env, clock, cacheIndex, cacheByUrl, stored, probe>>

\* callLLM up to its await: throws for an unsupported provider
callLLMThrows == env.provider # "openai"

\* (mutant) a failed model call is answered like a successful one
LLMResponse_Swallow(outcome) == Reply

\* The response of the basic handler once the model call has settled
LLMResponse(outcome) == IF outcome = "ok" THEN Reply ELSE ServerError

\* The handler of the basic server up to the await of the model call
PostChatBasic(r) ==
  /\ req[r].pc = "new"
  /\ ~ReferenceError(Declared_server)
  /\ \E body \in ChatBodies :
       req' = [req EXCEPT ![r] =
                 IF ~IsArray(body)
                 THEN [req[r] EXCEPT !.kind = "chatBasic", !.pc = "done",
                                     !.body = body, !.res = BadRequest,
                                     !.sent = @ + 1]
                 ELSE [req[r] EXCEPT
                         !.kind = "chatBasic", !.body = body, !.llmCalls = 1,
                         !.outbound = <<runtimeContextMessage(body.items), systemMessage>>
                                        \o body.items,
                         !.pc = IF callLLMThrows THEN "done" ELSE "llm",
                         !.outcome = IF callLLMThrows THEN "unsupported" ELSE "",
                         !.res = IF callLLMThrows THEN ServerError ELSE NoResponse,
                         !.sent = IF callLLMThrows THEN @ + 1 ELSE @]]
  /\ UNCHANGED <<env, clock, cacheIndex, cacheByUrl, stored, probe>>

\* The model API answers (or the call fails) and the handler responds
LLMDone(r) ==
  /\ req[r].pc = "llm"
  /\ \E outcome \in LLMOutcomes :
       req' = [req EXCEPT ![r] =
                 [req[r] EXCEPT !.pc = "done", !.outcome = outcome,
                                !.res = LLMResponse(outcome),
                                !.sent = @ + 1]]
  /\ UNCHANGED <<env, clock, cacheIndex, cacheByUrl, stored, probe>>

\* The response has been sent (or the call has returned): the slot serves
\* the next request
Recycle(r) ==
  /\ req[r].pc = "done"
  /\ req' = [req EXCEPT ![r] = IdleReq]
  /\ UNCHANGED <<env, clock, cacheIndex, cacheByUrl, stored, probe>>

\* ------------------------------------------------------- specifications
Next ==
  \/ Tick
  \/ \E r \in ReqIds : Recycle(r)
  \/ \E r \in ReqIds : PostChat(r)
  \/ \E r \in ReqIds : GetDebugIndex(r)
  \/ \E r \in ReqIds : IndexFetchDone(r)
  \/ \E r \in ReqIds : PostChatBasic(r)
  \/ \E r \in ReqIds : LLMDone(r)

Spec == Init /\ [][Next]_vars

InitCache ==
  /\ env = [indexUrlSet |-> TRUE, provider |-> "openai"]
  /\ InitCommon
  /\ probe = NoProbe

NextCache ==
  \/ Tick
  \/ \E r \in ReqIds : Recycle(r)
  \/ \E r \in ReqIds : CallGetSyllabiIndex(r)
  \/ \E r \in ReqIds : \E u \in Urls : CallGetSyllabusText(r, u)
  \/ \E r \in ReqIds : IndexFetchDone(r)
  \/ \E r \in ReqIds : TextFetchDone(r)

SpecCache == InitCache /\ [][NextCache]_vars

\* Inputs of the detection
DetectChars == {"a", "A", "b", "1", "2"}
TextsUpTo(n) == UNION { [1..k -> DetectChars] : k \in 0..n }
DetectNames == {<<>>, <<"a">>, <<"B">>, <<"1">>, <<"2">>, <<"a", "b">>}
AliasLists == {<<>>, << <<>> >>, << <<"b">> >>, << <<"A">>, <<"2">> >>}
DetectCourses == { Course(n, al, "") : n \in DetectNames, al \in AliasLists }
DetectDocs ==
  {<<>>} \cup { <<c>> : c \in DetectCourses }
  \cup { p \in { <<c, d>> : c \in DetectCourses, d \in DetectCourses } :
           p[1].name # p[2].name }

InitDetect ==
  /\ env = [indexUrlSet |-> TRUE, provider |-> "openai"]
  /\ InitCommon
  /\ probe \in [members : DetectDocs, text : TextsUpTo(MaxTextLen),
                called : {FALSE}, result : {None}]

\* findCourseFromUserText(JSON.parse(document), text)
Detect ==
  /\ ~probe.called
  /\ probe' = [probe EXCEPT !.called = TRUE,
                 !.result = findCourseFromUserText(JSONparse(RawJson(probe.members)),
                                                   probe.text)]
  /\ UNCHANGED <<env, clock, cacheIndex, cacheByUrl, req, stored>>

NextDetect == Detect

SpecDetect == InitDetect /\ [][NextDetect]_vars

\* ======================================================== course detection
\* t contains a, ignoring case
ContainsIgnoringCase(t, a) ==
  \E i \in 0..(Len(t) - Len(a)) :
    \A j \in 1..Len(a) : LowerChar(t[i + j]) = LowerChar(a[j])

\* the text contains the name or a non-empty alias of course c
Mentions(t, c) ==
  \/ (c.name # <<>> /\ ContainsIgnoringCase(t, c.name))
  \/ \E j \in 1..Len(c.aliases) :
       c.aliases[j] # <<>> /\ ContainsIgnoringCase(t, c.aliases[j])

Mentioned(cs, t) == { i \in 1..Len(cs) : Mentions(t, cs[i]) }

Min(S) == CHOOSE x \in S : \A y \in S : x <= y

FirstMentioned(cs, t) == cs[Min(Mentioned(cs, t))].name

\* member i of the document is enumerated before member j by the parsed object
EnumeratedBefore(cs, i, j) ==
  IF IsArrayIndex(cs[i].name)
  THEN IsArrayIndex(cs[j].name) => NumVal(cs[i].name) < NumVal(cs[j].name)
  ELSE ~IsArrayIndex(cs[j].name) /\ i < j

\* C8 (as stated): when the text matches two or more courses, detect returns
\* the matching course that comes first in the order of the index document.
C8_DocumentOrder ==
  (probe.called /\ Cardinality(Mentioned(probe.members, probe.text)) >= 2)
    => probe.result = Some(FirstMentioned(probe.members, probe.text))

\* C8 (amended): when the text matches two or more courses, detect returns
\* the matching course that comes first in the enumeration order of the
\* parsed index object: integer-like names in ascending numeric order first,
\* then the other names in document order.
C8_EnumerationOrder ==
  (probe.called /\ Cardinality(Mentioned(probe.members, probe.text)) >= 2)
    => \E i \in Mentioned(probe.members, probe.text) :
         /\ probe.result = Some(probe.members[i].name)
         /\ \A j \in Mentioned(probe.members, probe.text) \ {i} :
              EnumeratedBefore(probe.members, i, j)

\* C8 witness: both courses of a two-course document match, the second one
\* is integer-like and the first is not, and detect returned the second.
C8_Witness ==
  /\ probe.called
  /\ Len(probe.members) = 2
  /\ Mentioned(probe.members, probe.text) = {1, 2}
  /\ ~IsArrayIndex(probe.members[1].name)
  /\ IsArrayIndex(probe.members[2].name)
  /\ probe.result = Some(probe.members[2].name)

\* C9: when the text contains, ignoring case, the name or a non-empty alias
\* of exactly one course, detect returns that course's name as written in
\* the index; when it contains none of any course, detect returns none.
C9_ExactlyOne ==
  probe.called =>
    /\ Cardinality(Mentioned(probe.members, probe.text)) = 1
         => probe.result = Some(FirstMentioned(probe.members, probe.text))
    /\ Mentioned(probe.members, probe.text) = {}
         => probe.result = None

\* C9 witness: the only matching course is named "B", matched by a text in
\* lower case, and detect returned "B".
C9_Witness ==
  /\ probe.called
  /\ Cardinality(Mentioned(probe.members, probe.text)) = 1
  /\ FirstMentioned(probe.members, probe.text) = <<"B">>
  /\ probe.members[Min(Mentioned(probe.members, probe.text))].aliases = <<>>
  /\ probe.result = Some(<<"B">>)

\* =================================================================== cache
\* request r starts a cache read in this step (the index location being
\* configured when the key is the index)
ReadStarts(r) ==
  /\ req[r].pc = "new"
  /\ req'[r].kind \in {"getIndex", "getText", "debug"}
  /\ req'[r].key \in Keys

\* an entry exists under the key and is younger than the TTL
Fresh(key) ==
  /\ stored[key]
  /\ (clock - Entry(key).fetchedAt) < SYLLABI_CACHE_TTL_MS

ReturnsCached(r) ==
  /\ req'[r].pc = "done"
  /\ req'[r].outcome = "hit"
  /\ req'[r].value = Entry(req'[r].key).value
  /\ req'[r].fetches = 0

\* C3 (as stated): a read of a key whose entry exists and is younger than the
\* TTL returns the stored value and issues no fetch, whatever was stored.
C3_FreshHitAnyValue ==
  [][\A r \in ReqIds :
       (ReadStarts(r) /\ Fresh(req'[r].key)) => ReturnsCached(r)]_vars

\* C3 (amended): a read of a syllabus URL whose entry exists and is younger
\* than the TTL returns the stored text (even an empty one) and issues no
\* fetch; a read of the index does so when the stored value is truthy (a
\* stored null is treated as no entry).
C3_FreshHit ==
  [][\A r \in ReqIds :
       (/\ ReadStarts(r)
        /\ Fresh(req'[r].key)
        /\ (req'[r].key = IndexKey => Truthy(cacheIndex.value)))
         => ReturnsCached(r)]_vars

\* C3 witness: one read was served a cached index and another a cached
\* empty syllabus text.
C3_Witness ==
  \E r \in ReqIds, q \in ReqIds :
    /\ req[r].outcome = "hit" /\ req[r].key = IndexKey /\ req[r].fetches = 0
    /\ req[q].outcome = "hit" /\ req[q].key \in Urls /\ req[q].value = Txt(<<>>)

\* C4: a read of a key (the index location being configured) that has no
\* entry, or whose entry has age >= TTL, age = TTL included, issues one
\* upstream fetch; when the fetch succeeds the entry becomes the
\* fetched result with fetchedAt = the time the read started, and the read
\* returns that result having fetched once.
C4_MissFetchesOnce ==
  [][\A r \in ReqIds :
       /\ (ReadStarts(r) /\ ~Fresh(req'[r].key))
            => (req'[r].pc = "fetch" /\ req'[r].fetches = 1 /\ req'[r].now = clock)
       /\ (req[r].pc = "fetch" /\ req'[r].outcome = "fetched")
            => /\ Entry(req[r].key)' =
                    [value |-> req'[r].value, fetchedAt |-> req[r].now]
               /\ req'[r].pc = "done"
               /\ req'[r].fetches = 1]_vars

\* C4 witness: a read that found its entry at age exactly TTL has its fetch
\* in flight.
C4_Witness ==
  \E r \in ReqIds :
    /\ req[r].pc = "fetch" /\ req[r].seen = "atTTL" /\ req[r].fetches = 1
    /\ req[r].now = clock

\* C5: when the fetch of a read fails (failed status, or undecodable JSON
\* for the index) the read ends with that error and its failing step leaves
\* every cache entry as it was.
C5_FailureKeepsEntry ==
  [][\A r \in ReqIds :
       (req[r].pc = "fetch" /\ req'[r].outcome \in {"fetchError", "parseError"})
         => /\ cacheIndex' = cacheIndex
            /\ cacheByUrl' = cacheByUrl
            /\ req'[r].pc = "done"
            /\ ReadFailed(req'[r].outcome)]_vars

\* C5 witness: a read of the index failed on undecodable JSON while a stale
\* index is still cached.
C5_Witness ==
  \E r \in ReqIds :
    /\ req[r].pc = "done" /\ req[r].outcome = "parseError" /\ req[r].key = IndexKey
    /\ Truthy(cacheIndex.value)
    /\ (clock - cacheIndex.fetchedAt) >= SYLLABI_CACHE_TTL_MS

\* C7: a read that finds its key missing or expired issues its own fetch even
\* while another fetch of the key is in flight, and each successful fetch
\* writes its own result over the entry, leaving the other fetch in flight
\* and replacing what a fetch that started later has already written: the
\* entry holds the result of the fetch that completed last.
C7_NoSingleFlight ==
  [][\A r \in ReqIds, q \in ReqIds :
       /\ (r # q /\ ReadStarts(r) /\ ~Fresh(req'[r].key)
             /\ req[q].pc = "fetch" /\ req[q].key = req'[r].key)
            => (req'[r].pc = "fetch" /\ req'[r].fetches = 1)
       /\ (/\ r # q
           /\ req[r].pc = "fetch"
           /\ req'[r].outcome = "fetched"
           /\ \/ (req[q].pc = "fetch" /\ req[q].key = req[r].key)
              \/ Entry(req[r].key).fetchedAt > req[r].now)
            => /\ Entry(req[r].key)'.value = req'[r].value
               /\ Entry(req[r].key)'.fetchedAt = req[r].now
               /\ req'[q] = req[q]]_vars

\* C7 witness: two reads that both found the same syllabus entry expired
\* have their fetches in flight at once.
C7_Witness ==
  \E r \in ReqIds, q \in ReqIds :
    /\ req[r].pc = "fetch" /\ req[q].pc = "fetch"
    /\ req[r].key = req[q].key /\ req[r].key \in Urls
    /\ r # q
    /\ req[r].seen \in {"atTTL", "older"} /\ req[q].seen \in {"atTTL", "older"}

\* ============================================================ chat requests
Clarification(courseList) ==
  [status |-> 200, type |-> "clarify", error |-> "", courses |-> courseList]

\* the cached index is usable, no course is detected in the last user
\* message, the keyword gate matches it, and the index lists several courses
Ambiguous(items) ==
  /\ env.indexUrlSet
  /\ IndexHit(clock)
  /\ findCourseFromUserText(cacheIndex.value, lastUserText(items)) = None
  /\ needsCourse(lastUserText(items))
  /\ Len(ObjectKeys(cacheIndex.value)) > 1

\* C1 (as stated): a chat request with an array of messages that arrives
\* while the index is loaded, with no course detected, the keyword gate
\* matching and more than one course in the index, is answered with the
\* clarification listing the course names, without a model call.
C1_Clarification ==
  [][\A r \in ReqIds :
       (/\ req[r].pc = "new"
        /\ req'[r].kind = "chat"
        /\ req'[r].body.isArray
        /\ Ambiguous(req'[r].body.items))
         => (req'[r].pc = "done"
               => /\ req'[r].res = Clarification(ObjectKeys(cacheIndex.value))
                  /\ req'[r].llmCalls = 0)]_vars

LLMFailed(r) == req[r].outcome \in {"unsupported", "notOk", "rejected"}

\* C6 (as stated): a chat request with an array of messages is not failed by
\* a failure to load the index (here: no index location configured); it goes
\* on to the model call with the runtime and persona messages before the
\* conversation and is answered 200 unless the model call itself fails.
C6_IndexFailureNotFatal ==
  \A r \in ReqIds :
    (/\ req[r].kind = "chat"
     /\ req[r].pc = "done"
     /\ req[r].body.isArray
     /\ ~env.indexUrlSet)
      => /\ req[r].llmCalls = 1
         /\ req[r].outbound =
              <<runtimeContextMessage(req[r].body.items), systemMessage>>
                \o req[r].body.items
         /\ (req[r].res.status = 200 \/ LLMFailed(r))

\* C10: a chat request whose model invocation fails (unsupported provider,
\* failed status of the model API, or a rejected call) ends with the 500
\* response {error: "Server error"} after that single invocation.
C10_ModelFailureIs500 ==
  \A r \in ReqIds :
    (req[r].kind \in {"chat", "chatBasic"} /\ LLMFailed(r))
      => /\ req[r].pc = "done"
         /\ req[r].res = ServerError
         /\ req[r].llmCalls = 1

\* C10 witness: one request failed on the model API's status and another on
\* a rejected call, and both were answered 500.
C10_Witness ==
  \E r \in ReqIds, q \in ReqIds :
    /\ req[r].outcome = "notOk" /\ req[r].res.status = 500
    /\ req[q].outcome = "rejected" /\ req[q].res.status = 500

\* ================================================== request validation
\* C11: a chat request whose messages is not an array is answered 400
\* {error: "messages must be an array"} in the step that receives it, with no
\* fetch, no model call and no change to the cache.
C11_NotArrayIs400 ==
  [][\A r \in ReqIds :
       (/\ req[r].pc = "new"
        /\ req'[r].kind \in {"chat", "chatBasic"}
        /\ ~req'[r].body.isArray)
         => /\ req'[r].pc = "done"
            /\ req'[r].res = BadRequest
            /\ req'[r].fetches = 0
            /\ req'[r].llmCalls = 0
            /\ req'[r].outbound = <<>>
            /\ cacheIndex' = cacheIndex
            /\ cacheByUrl' = cacheByUrl]_vars

\* C11 witness: both servers have answered 400 to a request without an array
\* while an index is cached.
C11_Witness ==
  \E r \in ReqIds, q \in ReqIds :
    /\ req[r].kind = "chat" /\ req[r].res = BadRequest
    /\ req[q].kind = "chatBasic" /\ req[q].res = BadRequest
    /\ Truthy(cacheIndex.value)

\* C12 (as stated): a chat request whose messages array has a malformed
\* entry is answered 400 and is not forwarded to the model.
C12_MalformedIs400 ==
  \A r \in ReqIds :
    (/\ req[r].kind \in {"chat", "chatBasic"}
     /\ req[r].body.isArray
     /\ ~WellFormed(req[r].body.items))
      => /\ req[r].llmCalls = 0
         /\ (req[r].pc = "done" => req[r].res = BadRequest)

\* C12 (amended): the entries of a messages array are not validated: a
\* request whose array has a malformed entry is never answered 400, and
\* where the model is called the entries are forwarded as received.
C12_EntriesNotValidated ==
  \A r \in ReqIds :
    (/\ req[r].kind \in {"chat", "chatBasic"}
     /\ req[r].body.isArray
     /\ ~WellFormed(req[r].body.items))
      => /\ req[r].res.status # 400
         /\ (req[r].kind = "chatBasic"
               => /\ req[r].llmCalls = 1
                  /\ SubSeq(req[r].outbound, 3, Len(req[r].outbound))
                       = req[r].body.items)

\* C12 witness: the model call of a request with a role outside the
\* enumeration and an entry without content has been answered with a reply.
C12_Witness ==
  \E r \in ReqIds :
    /\ req[r].kind = "chatBasic" /\ req[r].pc = "done" /\ req[r].res = Reply
    /\ \E i \in 1..Len(req[r].body.items) :
         req[r].body.items[i].role = "tool"
    /\ \E i \in 1..Len(req[r].body.items) :
         req[r].body.items[i].content = None
    /\ Len(req[r].outbound) = 4

KeyInStep(r) == IF req[r].pc = "new" THEN req'[r].key ELSE req[r].key

Awaiting(r) == req[r].pc \in {"fetch", "llm"}

\* the next step of request q can be taken now
CanStep(q) ==
  /\ (req[q].pc = "new"
        => /\ ENABLED GetDebugIndex(q)
           /\ ENABLED PostChat(q)
           /\ ENABLED PostChatBasic(q))
  /\ (req[q].pc = "fetch" => ENABLED IndexFetchDone(q))
  /\ (req[q].pc = "llm" => ENABLED LLMDone(q))

\* C15: while a request awaits an upstream call that has not completed,
\* every other request can take each of its steps up to its response, a
\* request that reads the same cache key included.
C15_HungCallStallsOnlyItself ==
  \A r \in ReqIds, q \in ReqIds :
    (r # q /\ Awaiting(r)) => CanStep(q)

\* C15 witness: while the index fetch of one request is still in flight, a
\* request that started later has fetched the same key and was answered.
C15_Witness ==
  \E r \in ReqIds, q \in ReqIds :
    /\ r # q
    /\ req[r].pc = "fetch" /\ req[r].key = IndexKey
    /\ req[q].kind = "debug" /\ req[q].pc = "done"
    /\ req[q].outcome = "fetched" /\ req[q].res.status = 200
    /\ cacheIndex.fetchedAt > req[r].now

\* ========================================================== no eviction
\* the key has a value as the reads test it: a truthy index value, an entry
\* of the map
HasValue(key) ==
  IF key = IndexKey THEN Truthy(cacheIndex.value) ELSE cacheByUrl[key] # None

\* a fetch of the key succeeds in this step and stores what it returns
RefreshedBy(r, key) ==
  /\ req[r].pc = "fetch"
  /\ req[r].key = key
  /\ req'[r].pc = "done"
  /\ req'[r].outcome = "fetched"

\* C16 (as stated): a key that has a stored value has one in every later
\* state.
C16_NeverLosesValue ==
  [][\A k \in Keys : HasValue(k) => HasValue(k)']_vars

\* C16 (amended): the entry of a key changes only when a fetch of that key
\* succeeds, and then to the fetched value; a syllabus URL that has an entry
\* keeps one for ever; the index loses its value only when a successful
\* refresh stores a document that is null.
C16_OnlyOverwritten ==
  [][/\ \A u \in Urls : cacheByUrl[u] # None => cacheByUrl'[u] # None
     /\ \A k \in Keys :
          (Entry(k)' # Entry(k) \/ (HasValue(k) /\ ~HasValue(k)'))
            => \E r \in ReqIds :
                 /\ RefreshedBy(r, k)
                 /\ Entry(k)' = [value |-> req'[r].value, fetchedAt |-> req[r].now]
     /\ (HasValue(IndexKey) /\ ~HasValue(IndexKey)')
          => cacheIndex'.value = JsonNull]_vars

\* C16 witness: a text entry has outlived a failed refresh, and the index,
\* stored before, now holds null.
C16_Witness ==
  \E r \in ReqIds :
    /\ req[r].kind = "getText" /\ req[r].pc = "done"
    /\ req[r].outcome = "fetchError"
    /\ cacheByUrl[req[r].key] # None
    /\ stored[IndexKey] /\ ~Truthy(cacheIndex.value)

\* ================================================ no index location set
\* C17 (as stated): with no index location configured, loading the index
\* fails with a configuration error without a fetch and without a change to
\* the cache; the debug endpoint reports the error; a chat request with an
\* array of messages goes on to the model without syllabus context.
C17_NoIndexLocation ==
  ~env.indexUrlSet
    => /\ cacheIndex = [value |-> JsonNull, fetchedAt |-> 0]
       /\ \A r \in ReqIds :
            /\ (req[r].kind = "debug"
                  => /\ req[r].pc = "done"
                     /\ req[r].outcome = "configError"
                     /\ req[r].fetches = 0
                     /\ req[r].res.type = "okFalse"
                     /\ req[r].res.error = "configError")
            /\ ((req[r].kind = "chat" /\ req[r].pc = "done" /\ req[r].body.isArray)
                  => /\ req[r].llmCalls = 1
                     /\ Len(req[r].outbound) = 2 + Len(req[r].body.items))

\* ===================================================== terminal outcomes
\* C18 (as stated, on the finished request): a chat request of the
\* syllabus-aware server with an array of messages ends in one of the
\* outcomes of the request state machine: the clarification without a model
\* call, or one model call followed by the reply or by 500.
C18_TerminalOutcome ==
  \A r \in ReqIds :
    (req[r].kind = "chat" /\ req[r].pc = "done" /\ req[r].body.isArray)
      => \/ req[r].res.type = "clarify" /\ req[r].llmCalls = 0
         \/ req[r].llmCalls = 1 /\ req[r].res = Reply
         \/ req[r].llmCalls = 1 /\ req[r].res = ServerError /\ LLMFailed(r)

\* ========================================================= empty aliases
\* course c declares an empty alias
HasEmptyAlias(c) == \E j \in 1..Len(c.aliases) : c.aliases[j] = <<>>

\* C20: a course that declares an empty alias is detected only if the text
\* contains, ignoring case, its name or one of its non-empty aliases, and
\* detect on the empty text returns none for every index.
C20_EmptyAliasNoMatch ==
  probe.called =>
    /\ \A i \in 1..Len(probe.members) :
         (HasEmptyAlias(probe.members[i])
            /\ probe.result = Some(probe.members[i].name))
           => Mentions(probe.text, probe.members[i])
    /\ (probe.text = <<>> => probe.result = None)

\* C20 witness: the first course of the document declares an empty alias and
\* is not mentioned by the non-empty text; detect returned the second course.
C20_Witness ==
  /\ probe.called
  /\ Len(probe.members) = 2
  /\ probe.members[1].aliases = << <<>> >>
  /\ probe.text # <<>>
  /\ ~Mentions(probe.text, probe.members[1])
  /\ probe.result = Some(probe.members[2].name)

\* ============================================ clarification only if needed
\* C21 (as stated): a chat request of the syllabus-aware server with an array
\* of messages that is not in the ambiguous case (a course is detected, or
\* the keyword gate is false, or the index lists at most one course, or the
\* index cannot be loaded) is not answered with the clarification and goes
\* on to the model call.
C21_OnlyWhenAmbiguous ==
  [][\A r \in ReqIds :
       (/\ req[r].pc = "new"
        /\ req'[r].kind = "chat"
        /\ req'[r].body.isArray
        /\ ~Ambiguous(req'[r].body.items))
         => /\ req'[r].res.type # "clarify"
            /\ req'[r].llmCalls = 1]_vars

\* ===================================================== order of fetchedAt
\* C22 (as stated): the fetchedAt of a cache entry never decreases.
C22_FetchedAtMonotone ==
  [][\A k \in Keys : Entry(k)'.fetchedAt >= Entry(k).fetchedAt]_vars

\* C22 (amended): a successful fetch stamps the entry with the time at which
\* its read started, whatever the entry held; the fetchedAt of an entry
\* decreases only by the write of a fetch that started before the stamp it
\* replaces, and is never later than the current time.
C22_StampedAtReadStart ==
  [][\A k \in Keys :
       /\ \A r \in ReqIds :
            RefreshedBy(r, k) => Entry(k)'.fetchedAt = req[r].now
       /\ (Entry(k)'.fetchedAt < Entry(k).fetchedAt)
            => \E r \in ReqIds :
                 RefreshedBy(r, k) /\ req[r].now < Entry(k).fetchedAt
       /\ Entry(k)'.fetchedAt <= clock']_vars

\* C22 witness: the write of a syllabus fetch has replaced an entry stamped
\* later than the start of its read, and the entry now carries the earlier
\* stamp.
C22_Witness ==
  \E r \in ReqIds :
    /\ req[r].kind = "getText" /\ req[r].pc = "done"
    /\ req[r].outcome = "fetched" /\ req[r].seen = "newer"
    /\ Entry(req[r].key).value = req[r].value
    /\ Entry(req[r].key).fetchedAt < clock

\* =================================================== exactly one response
\* C23: a chat request that has completed has sent exactly one response and
\* one that has not completed has sent none; nothing happens to a request
\* once its response is sent; the model is called at most once per request,
\* and only while no response has been sent.
C23_ExactlyOneResponse ==
  [][\A r \in ReqIds :
       req'[r].kind \in {"chat", "chatBasic"}
         => /\ (req'[r].pc = "done"
                  => req'[r].sent = 1 /\ req'[r].res # NoResponse)
            /\ (req'[r].pc # "done"
                  => req'[r].sent = 0 /\ req'[r].res = NoResponse)
            /\ (req[r].sent > 0 => req'[r] = req[r])
            /\ req'[r].llmCalls <= 1
            /\ (req'[r].llmCalls > req[r].llmCalls => req[r].sent = 0)]_vars

\* C23 witness: the syllabus-aware server has answered 500 to one request
\* and the basic server has answered another with the reply of its one model
\* call; each has sent one response.
C23_Witness ==
  \E r \in ReqIds, q \in ReqIds :
    /\ req[r].kind = "chat" /\ req[r].body.isArray
    /\ req[r].res = ServerError /\ req[r].sent = 1 /\ req[r].llmCalls = 0
    /\ req[q].kind = "chatBasic" /\ req[q].res = Reply
    /\ req[q].sent = 1 /\ req[q].llmCalls = 1

====
